---- MODULE Spec2Model ----
(***************************************************************************)
(* Feature flags of lightning/src/ln/features.rs: the registry of feature  *)
(* bit pairs, the three contexts, and Features<T>, a little-endian byte    *)
(* vector of flags with its queries, mutators, merge, projection and wire  *)
(* (de)serialisation.  A byte is a number in 0..255; the code's flags[i]   *)
(* is At(flags, i).                                                        *)
(***************************************************************************)
EXTENDS Integers, Sequences, FiniteSets, TLC

(***************************************************************************)
(* Bounds of the model.                                                    *)
(***************************************************************************)
\* longest vector drawn as an input of the wire and unknown-bit harnesses
MaxLen == 4
\* longest operand drawn for the merge harness
MaxOrLen == 2
\* longest initial vector of the per-feature harness
MaxCapLen == 3

(***************************************************************************)
(* u8 arithmetic.                                                          *)
(***************************************************************************)
Min(a, b) == IF a < b THEN a ELSE b

Max(a, b) == IF a > b THEN a ELSE b

Pow2(n) == 2 ^ n

RECURSIVE BitAnd(_, _)
\* a & b on u8
BitAnd(a, b) ==
    IF a = 0 \/ b = 0 THEN 0
    ELSE (a % 2) * (b % 2) + 2 * BitAnd(a \div 2, b \div 2)

RECURSIVE BitOr(_, _)
\* a | b on u8
BitOr(a, b) ==
    IF a = 0 THEN b
    ELSE IF b = 0 THEN a
    ELSE (IF a % 2 = 1 \/ b % 2 = 1 THEN 1 ELSE 0) + 2 * BitOr(a \div 2, b \div 2)

\* !a on u8
BitNot(a) == 255 - a

RECURSIVE OrAll(_)
\* 0b00_00_00_00 | m1 | m2 | ... over a set of masks
OrAll(S) ==
    IF S = {} THEN 0
    ELSE LET m == CHOOSE x \in S : TRUE IN BitOr(m, OrAll(S \ {m}))

\* flags[i], 0-indexed as in the code
At(v, i) == v[i + 1]

\* Vec::resize(n, x)
resize(v, n, x) == LET old == Len(v) IN [i \in 1..n |-> IF i <= old THEN v[i] ELSE x]

\* iter().rev() / Vec::reverse()
Reverse(v) == LET n == Len(v) IN [i \in 1..n |-> v[n + 1 - i]]

(***************************************************************************)
(* The registry: define_feature!                                           *)
(***************************************************************************)
FeatureNames ==
    {"DataLossProtect", "InitialRoutingSync", "UpfrontShutdownScript",
     "VariableLengthOnion", "PaymentSecret", "BasicMPP"}

ODD_BIT(f) ==
    CASE f = "DataLossProtect" -> 1
      [] f = "InitialRoutingSync" -> 3
      [] f = "UpfrontShutdownScript" -> 5
      [] f = "VariableLengthOnion" -> 9
      [] f = "PaymentSecret" -> 15
      [] f = "BasicMPP" -> 17

EVEN_BIT(f) == ODD_BIT(f) - 1

BYTE_OFFSET(f) == EVEN_BIT(f) \div 8

REQUIRED_MASK(f) == Pow2(EVEN_BIT(f) - 8 * BYTE_OFFSET(f))

OPTIONAL_MASK(f) == Pow2(ODD_BIT(f) - 8 * BYTE_OFFSET(f))

\* the contexts a feature is implemented for
FeatureContexts(f) ==
    IF f = "InitialRoutingSync" THEN {"InitContext"}
    ELSE {"InitContext", "NodeContext"}

(***************************************************************************)
(* The contexts: define_context!                                           *)
(***************************************************************************)
Contexts == {"InitContext", "NodeContext", "ChannelContext"}

\* required_features: [...], one set of features per byte
required_features(T) ==
    CASE T = "InitContext" -> << {}, {}, {} >>
      [] T = "NodeContext" -> << {}, {}, {} >>
      [] T = "ChannelContext" -> << >>

\* optional_features: [...], one set of features per byte
optional_features(T) ==
    CASE T = "InitContext" ->
            << {"DataLossProtect", "InitialRoutingSync", "UpfrontShutdownScript"},
               {"VariableLengthOnion", "PaymentSecret"},
               {"BasicMPP"} >>
      [] T = "NodeContext" ->
            << {"DataLossProtect", "UpfrontShutdownScript"},
               {"VariableLengthOnion", "PaymentSecret"},
               {"BasicMPP"} >>
      [] T = "ChannelContext" -> << >>

\* the slice of KNOWN_FEATURE_FLAGS, computed once per context as a const is
KnownFeatureFlagsConst ==
    [T \in Contexts |->
        [i \in 1..Len(optional_features(T)) |->
            OrAll({REQUIRED_MASK(f) : f \in required_features(T)[i]}
                  \cup {OPTIONAL_MASK(f) : f \in optional_features(T)[i]})]]

KNOWN_FEATURE_FLAGS(T) == KnownFeatureFlagsConst[T]

\* a context whose mask forgets the optional features
KNOWN_FEATURE_MASK_required_only(T) ==
    [i \in 1..Len(optional_features(T)) |->
        OrAll({BitOr(REQUIRED_MASK(f), OPTIONAL_MASK(f)) : f \in required_features(T)[i]})]

\* the slice of KNOWN_FEATURE_MASK, computed once per context as a const is
KnownFeatureMaskConst ==
    [T \in Contexts |->
        [i \in 1..Len(optional_features(T)) |->
            OrAll({BitOr(REQUIRED_MASK(f), OPTIONAL_MASK(f)) : f \in required_features(T)[i]}
                  \cup {BitOr(REQUIRED_MASK(f), OPTIONAL_MASK(f)) : f \in optional_features(T)[i]})]]

KNOWN_FEATURE_MASK(T) == KnownFeatureMaskConst[T]

(***************************************************************************)
(* Per-feature operations on a byte vector: define_feature!                *)
(***************************************************************************)
supports_feature(f, v) ==
    /\ Len(v) > BYTE_OFFSET(f)
    /\ BitAnd(At(v, BYTE_OFFSET(f)), BitOr(REQUIRED_MASK(f), OPTIONAL_MASK(f))) # 0

\* set_optional_bit that is one byte off
set_optional_bit_next_byte(f, v) ==
    LET off == BYTE_OFFSET(f) + 1
        r == IF Len(v) <= off THEN resize(v, off + 1, 0) ELSE v
    IN  [r EXCEPT ![off + 1] = BitOr(@, OPTIONAL_MASK(f))]

set_optional_bit(f, v) ==
    LET r == IF Len(v) <= BYTE_OFFSET(f) THEN resize(v, BYTE_OFFSET(f) + 1, 0) ELSE v
    IN  [r EXCEPT ![BYTE_OFFSET(f) + 1] = BitOr(@, OPTIONAL_MASK(f))]

\* clear_bits that leaves the required bit set
clear_bits_optional_only(f, v) ==
    IF Len(v) > BYTE_OFFSET(f)
    THEN [v EXCEPT ![BYTE_OFFSET(f) + 1] = BitAnd(@, BitNot(OPTIONAL_MASK(f)))]
    ELSE v

clear_bits(f, v) ==
    IF Len(v) > BYTE_OFFSET(f)
    THEN [v EXCEPT ![BYTE_OFFSET(f) + 1] =
              BitAnd(BitAnd(@, BitNot(REQUIRED_MASK(f))), BitNot(OPTIONAL_MASK(f)))]
    ELSE v

(***************************************************************************)
(* Primitives of util::ser, which writes integers big-endian and a byte    *)
(* vector as a 2-byte length followed by that many bytes.                  *)
(***************************************************************************)
\* u16::write
WriteU16(n) == << n \div 256, n % 256 >>

\* u8::write
WriteU8(b) == << b >>

\* Vec<u8>::read: the length, then that many bytes; a short stream is an error
ReadVecU8(bytes) ==
    IF Len(bytes) < 2 THEN [ok |-> FALSE, val |-> << >>]
    ELSE LET len == bytes[1] * 256 + bytes[2]
         IN  IF Len(bytes) - 2 < len THEN [ok |-> FALSE, val |-> << >>]
             ELSE [ok |-> TRUE, val |-> SubSeq(bytes, 3, 2 + len)]

\* the length a wire message declares
DeclaredLen(bytes) == bytes[1] * 256 + bytes[2]

\* the bytes that follow the length
Content(bytes) == SubSeq(bytes, 3, Len(bytes))

(***************************************************************************)
(* InitFeatures                                                            *)
(***************************************************************************)
\* `len as u16`
AsU16(n) == n % 65536

RECURSIVE WriteRev13(_, _)
\* for i in (0..len).rev() of write_up_to_13
WriteRev13(v, len) ==
    IF len = 0 THEN << >>
    ELSE LET i == len - 1
         IN  (IF i = 0 THEN WriteU8(At(v, i)) ELSE WriteU8(BitAnd(At(v, i), 63)))
             \o WriteRev13(v, i)

\* write_up_to_13 that does not mask bits 14 and 15
write_up_to_13_unmasked(v) ==
    LET len == Min(2, Len(v))
    IN  WriteU16(AsU16(len)) \o Reverse(SubSeq(v, 1, len))

\* write_up_to_13 with the length fixed at 2
write_up_to_13_len2(v) ==
    LET len == Min(2, Len(v))
    IN  WriteU16(AsU16(2)) \o WriteRev13(v, len)

write_up_to_13(v) ==
    LET len == Min(2, Len(v))
    IN  WriteU16(AsU16(len)) \o WriteRev13(v, len)

\* or that keeps self's length
or_no_resize(self, o) ==
    [i \in 1..Len(self) |-> IF i <= Len(o) THEN BitOr(self[i], o[i]) ELSE self[i]]

or(self, o) ==
    LET total_feature_len == Max(Len(self), Len(o))
        grown == resize(self, total_feature_len, 0)
    IN  [i \in 1..total_feature_len |->
            IF i <= Len(o) THEN BitOr(grown[i], o[i]) ELSE grown[i]]

(***************************************************************************)
(* Features<T>                                                             *)
(***************************************************************************)
empty == << >>

known(T) == KNOWN_FEATURE_FLAGS(T)

\* the projection without the mask
with_known_relevant_init_flags_unmasked(T, init_ctx) ==
    SubSeq(init_ctx, 1, Min(Len(init_ctx), Len(KNOWN_FEATURE_MASK(T))))

with_known_relevant_init_flags(T, init_ctx) ==
    LET byte_count == Len(KNOWN_FEATURE_MASK(T))
        kept == { i \in 0..(Len(init_ctx) - 1) : i < byte_count }
    IN  [j \in 1..Cardinality(kept) |->
            BitAnd(At(init_ctx, j - 1), At(KNOWN_FEATURE_MASK(T), j - 1))]

from_le_bytes(v) == v

\* the unknown_features mask of byte i
unknown_features(T, i) ==
    IF i < Len(KNOWN_FEATURE_MASK(T)) THEN BitNot(At(KNOWN_FEATURE_MASK(T), i)) ELSE 255

\* requires_unknown_bits that looks at the odd bits
requires_unknown_bits_odd(T, v) ==
    \E i \in 0..(Len(v) - 1) :
        BitAnd(At(v, i), BitAnd(170, unknown_features(T, i))) # 0

requires_unknown_bits(T, v) ==
    \E i \in 0..(Len(v) - 1) :
        BitAnd(At(v, i), BitAnd(85, unknown_features(T, i))) # 0

supports_unknown_bits(T, v) ==
    \E i \in 0..(Len(v) - 1) :
        BitAnd(At(v, i), unknown_features(T, i)) # 0

byte_count(v) == Len(v)

set_require_unknown_bits(v) ==
    LET newlen == Max(3, Len(v))
        r == resize(v, newlen, 0)
    IN  [r EXCEPT ![3] = BitOr(@, 64)]

clear_require_unknown_bits(v) ==
    LET newlen == Max(3, Len(v))
        r0 == resize(v, newlen, 0)
        r1 == [r0 EXCEPT ![3] = BitAnd(@, BitNot(64))]
        r2 == IF Len(r1) = 3 /\ At(r1, 2) = 0 THEN resize(r1, 2, 0) ELSE r1
        r3 == IF Len(r2) = 2 /\ At(r2, 1) = 0 THEN resize(r2, 1, 0) ELSE r2
    IN  r3

initial_routing_sync(v) == supports_feature("InitialRoutingSync", v)

\* the wire write without the swap to big-endian
write_no_swap(v) == WriteU16(AsU16(Len(v))) \o v

write(v) == WriteU16(AsU16(Len(v))) \o Reverse(v)

read(bytes) ==
    LET r == ReadVecU8(bytes)
    IN  IF r.ok THEN [ok |-> TRUE, flags |-> Reverse(r.val)]
        ELSE [ok |-> FALSE, flags |-> << >>]

(***************************************************************************)
(* State.                                                                  *)
(***************************************************************************)
VARIABLES
    ctx,    \* the context T of the vector
    flags,  \* self.flags
    o,      \* the InitFeatures argument of or and of with_known_relevant_init_flags
    o2,     \* a third InitFeatures
    wire,   \* the bytes written to the Writer
    wby,    \* the method that wrote them
    op,     \* the last operation applied, where a property asks which it was
    pre,    \* the vector that operation was applied to, as it was before
    last,   \* per feature, the last per-feature operation applied to it
    orig    \* the vector the per-feature operations started from

vars == << ctx, flags, o, o2, wire, wby, op, pre, last, orig >>

\* all byte vectors of at most n bytes drawn from B
Vectors(B, n) == UNION { [1..k -> B] : k \in 0..n }

NoLast == [f \in FeatureNames |-> "none"]

(***************************************************************************)
(* Wire: a vector of any context is written, by write or (handshake only)  *)
(* by write_up_to_13, and what was written is read back.                   *)
(***************************************************************************)
WireBytes == {0, 2, 130, 255}

\* a vector one byte longer than a u16 length can declare
LongVector == [i \in 1..65536 |-> 0]

WireInit ==
    /\ ctx \in Contexts
    /\ flags \in Vectors(WireBytes, MaxLen) \cup {LongVector}
    /\ wire = << >>
    /\ wby = "none"
    /\ op = "from_le_bytes"
    /\ pre = flags
    /\ o = << >> /\ o2 = << >> /\ last = NoLast /\ orig = << >>

Write ==
    /\ wire' = write(flags)
    /\ wby' = "write"
    /\ op' = "write"
    /\ pre' = flags
    /\ UNCHANGED << ctx, flags, o, o2, last, orig >>

WriteUpTo13 ==
    /\ ctx = "InitContext"
    /\ wire' = write_up_to_13(flags)
    /\ wby' = "write_up_to_13"
    /\ op' = "write_up_to_13"
    /\ pre' = flags
    /\ UNCHANGED << ctx, flags, o, o2, last, orig >>

Read ==
    /\ wby # "none"
    /\ LET r == read(wire)
       IN  IF r.ok
           THEN flags' = r.flags /\ op' = "read"
           ELSE flags' = flags /\ op' = "read_err"
    /\ pre' = flags
    /\ UNCHANGED << ctx, o, o2, wire, wby, last, orig >>

WireNext == Write \/ WriteUpTo13 \/ Read

SpecWire == WireInit /\ [][WireNext]_vars

\* bit n of a vector, a missing byte counting as zero
TestBit(v, n) == (n \div 8) < Len(v) /\ (At(v, n \div 8) \div Pow2(n % 8)) % 2 = 1

\* C1 as stated: whatever was written by write reads back as the same
\* storage bytes, for every vector.
C1_RoundTripAnyLength ==
    (op = "read" /\ wby = "write") => flags = pre

\* C1: a vector of at most 65535 storage bytes that is written by write and
\* read back has the same storage bytes, in every context; the read does not
\* fail.
C1_RoundTrip ==
    /\ (op = "read" /\ wby = "write" /\ Len(pre) <= 65535) => flags = pre
    /\ (op = "read_err") => wby # "write"

C1_Witness ==
    /\ op = "read" /\ wby = "write"
    /\ Len(pre) = 3 /\ pre[1] = 2 /\ pre[2] = 130 /\ pre[3] = 0
    /\ flags = pre

\* C3 as stated: write_up_to_13 always declares a length of 2.
C3_LengthAlways2 ==
    (op = "write_up_to_13") => DeclaredLen(wire) = 2

\* C3: write_up_to_13 declares the length min(2, number of storage bytes):
\* 2 for a vector of two bytes or more, 1 for one byte, 0 for none.
C3_LengthMin2 ==
    (op = "write_up_to_13") =>
        /\ Len(wire) >= 2
        /\ DeclaredLen(wire) = (IF Len(flags) >= 2 THEN 2 ELSE Len(flags))

C3_Witness ==
    op = "write_up_to_13" /\ Len(flags) = 1 /\ DeclaredLen(wire) = 1

\* C4: write_up_to_13 writes the first min(2, len) storage bytes, byte 1
\* before byte 0, byte 1 without its two upper bits and byte 0 as it is; as
\* many bytes as the length it declares; it leaves the vector alone; read
\* back, the result has the vector's bits 0 to 13 and no bit above.
C4_UpTo13 ==
    /\ (op = "write_up_to_13") =>
          LET n == IF Len(pre) >= 2 THEN 2 ELSE Len(pre)
              c == Content(wire)
          IN  /\ flags = pre
              /\ Len(c) = n
              /\ DeclaredLen(wire) = Len(c)
              /\ (n >= 1 => c[n] = pre[1])
              /\ (n = 2 => c[1] = pre[2] % 64)
    /\ (op = "read" /\ wby = "write_up_to_13") =>
          /\ \A n \in 0..13 : TestBit(flags, n) <=> TestBit(pre, n)
          /\ \A n \in 14..(8 * Len(flags) + 8) : ~TestBit(flags, n)
    /\ (op = "read_err") => wby # "write_up_to_13"

C4_Witness ==
    /\ op = "read" /\ wby = "write_up_to_13"
    /\ Len(pre) = 3 /\ pre[1] = 2 /\ pre[2] = 255 /\ pre[3] = 2
    /\ flags = << 2, 63 >>

(***************************************************************************)
(* Construction and the unknown-bit queries: a vector of any context is    *)
(* given as bytes (from_le_bytes, or read from a peer), or built by        *)
(* empty() or known(), and the test helpers set and clear an unknown       *)
(* required bit on it.                                                     *)
(***************************************************************************)
InputBytes == {0, 2, 64}

Init ==
    /\ ctx \in Contexts
    /\ flags \in { from_le_bytes(v) : v \in Vectors(InputBytes, MaxLen) }
    /\ op = "from_le_bytes"
    /\ pre = << >>
    /\ orig = flags
    /\ o = << >> /\ o2 = << >> /\ wire = << >> /\ wby = "none" /\ last = NoLast

Empty(T) ==
    /\ ctx' = T
    /\ flags' = empty
    /\ orig' = empty
    /\ op' = "empty"
    /\ pre' = << >>
    /\ UNCHANGED << o, o2, wire, wby, last >>

Known(T) ==
    /\ ctx' = T
    /\ flags' = known(T)
    /\ orig' = known(T)
    /\ op' = "known"
    /\ pre' = << >>
    /\ UNCHANGED << o, o2, wire, wby, last >>

SetRequireUnknownBits ==
    /\ flags' = set_require_unknown_bits(flags)
    /\ op' = "set_require_unknown_bits"
    /\ pre' = flags
    /\ UNCHANGED << ctx, orig, o, o2, wire, wby, last >>

ClearRequireUnknownBits ==
    /\ flags' = clear_require_unknown_bits(flags)
    /\ op' = "clear_require_unknown_bits"
    /\ pre' = flags
    /\ UNCHANGED << ctx, orig, o, o2, wire, wby, last >>

Next ==
    \/ \E T \in Contexts : Empty(T)
    \/ \E T \in Contexts : Known(T)
    \/ SetRequireUnknownBits
    \/ ClearRequireUnknownBits

Spec == Init /\ [][Next]_vars

\* the positions of the bits a vector holds
BitsOf(v) == { n \in 0..(8 * Len(v) - 1) : TestBit(v, n) }

\* C2: in each of the three contexts known() has no unknown bit, required or
\* optional: every bit of KNOWN_FEATURE_FLAGS is a bit of KNOWN_FEATURE_MASK.
C2_KnownHasNoUnknownBits ==
    (op = "known") =>
        /\ ~requires_unknown_bits(ctx, flags)
        /\ ~supports_unknown_bits(ctx, flags)
        /\ BitsOf(flags) \subseteq BitsOf(KNOWN_FEATURE_MASK(ctx))

C2_Witness ==
    op = "known" /\ ctx = "InitContext" /\ flags = << 42, 130, 2 >>

\* C6 as stated: on an empty vector, set_require_unknown_bits followed by
\* clear_require_unknown_bits gives back the empty vector.
C6_SetClearRestoresEmpty ==
    (/\ op = "clear_require_unknown_bits"
     /\ orig = empty
     /\ pre = set_require_unknown_bits(empty)) => flags = empty

\* C8: a bit at or beyond the end of the context's mask is an unknown bit,
\* required when its position is even; a vector whose only bit is such a bit
\* at an odd position requires nothing unknown; and after
\* set_require_unknown_bits a vector requires unknown bits.
C8_UnknownBitDetection ==
    LET beyond == { n \in BitsOf(flags) : n \div 8 >= Len(KNOWN_FEATURE_MASK(ctx)) }
    IN  /\ (beyond # {}) => supports_unknown_bits(ctx, flags)
        /\ (\E n \in beyond : n % 2 = 0) => requires_unknown_bits(ctx, flags)
        /\ (\E n \in beyond : n % 2 = 1 /\ BitsOf(flags) = {n}) =>
               ~requires_unknown_bits(ctx, flags)
        /\ (op = "set_require_unknown_bits") => requires_unknown_bits(ctx, flags)

C8_Witness ==
    /\ ctx = "NodeContext"
    /\ op = "set_require_unknown_bits"
    /\ pre = << 0, 0, 0, 2 >>
    /\ flags = << 0, 0, 64, 2 >>
    /\ requires_unknown_bits(ctx, flags)
    /\ ~requires_unknown_bits(ctx, pre)
    /\ supports_unknown_bits(ctx, pre)

(***************************************************************************)
(* Projection: a handshake vector, ours or a peer's, is projected into a   *)
(* context by with_known_relevant_init_flags.                              *)
(***************************************************************************)
ProjBytes == {0, 76, 255}

ProjInit ==
    /\ o \in Vectors(ProjBytes, MaxLen) \cup {known("InitContext")}
    /\ ctx = "InitContext"
    /\ flags = empty
    /\ op = "empty"
    /\ pre = << >>
    /\ o2 = << >> /\ wire = << >> /\ wby = "none" /\ last = NoLast /\ orig = << >>

WithKnownRelevantInitFlags(T) ==
    /\ ctx' = T
    /\ flags' = with_known_relevant_init_flags(T, o)
    /\ op' = "with_known_relevant_init_flags"
    /\ pre' = o
    /\ UNCHANGED << o, o2, wire, wby, last, orig >>

ProjNext == \E T \in Contexts : WithKnownRelevantInitFlags(T)

SpecProject == ProjInit /\ [][ProjNext]_vars

\* C5: the projection of a handshake vector s into a context has
\* min(len(s), len(mask)) bytes, byte i being s[i] AND mask[i]: the bytes of s
\* beyond the mask are dropped; s is as it was; the handshake known() vector
\* projects into the node context as [0b00100010, 0b10000010, 0b00000010],
\* where initial_routing_sync is not set.
C5_Projection ==
    (op = "with_known_relevant_init_flags") =>
        LET mask == KNOWN_FEATURE_MASK(ctx)
        IN  /\ o = pre
            /\ Len(flags) = (IF Len(pre) < Len(mask) THEN Len(pre) ELSE Len(mask))
            /\ \A n \in 0..(8 * Len(flags) - 1) :
                   TestBit(flags, n) <=> (TestBit(pre, n) /\ TestBit(mask, n))
            /\ (pre = known("InitContext") /\ ctx = "NodeContext") =>
                   /\ flags = << 34, 130, 2 >>
                   /\ initial_routing_sync(pre)
                   /\ ~initial_routing_sync(flags)

C5_Witness ==
    /\ op = "with_known_relevant_init_flags"
    /\ ctx = "NodeContext"
    /\ pre = << 255, 255, 255, 255 >>
    /\ flags = << 51, 195, 3 >>

(***************************************************************************)
(* Merge: three handshake vectors, merged by or.                           *)
(***************************************************************************)
OrBytes == {0, 10, 129}

OrInit ==
    /\ ctx = "InitContext"
    /\ flags \in Vectors(OrBytes, MaxOrLen)
    /\ o \in Vectors(OrBytes, MaxOrLen)
    /\ o2 \in Vectors(OrBytes, MaxOrLen)
    /\ op = "from_le_bytes"
    /\ pre = << >>
    /\ wire = << >> /\ wby = "none" /\ last = NoLast /\ orig = << >>

\* flags.or(o)
Or ==
    /\ flags' = or(flags, o)
    /\ op' = "or"
    /\ pre' = flags
    /\ UNCHANGED << ctx, o, o2, wire, wby, last, orig >>

\* o.or(o2)
OrOther ==
    /\ o' = or(o, o2)
    /\ op' = "or_other"
    /\ pre' = o
    /\ UNCHANGED << ctx, flags, o2, wire, wby, last, orig >>

OrNext == Or \/ OrOther

SpecOr == OrInit /\ [][OrNext]_vars

\* C7: or is commutative and associative, the empty vector is its identity
\* on both sides, and its result has the length of the longer operand, each
\* bit being set when it is set in either operand.
C7_OrLaws ==
    /\ or(flags, o) = or(o, flags)
    /\ or(or(flags, o), o2) = or(flags, or(o, o2))
    /\ or(flags, empty) = flags
    /\ or(empty, flags) = flags
    /\ (op = "or") =>
          /\ Len(flags) = (IF Len(pre) > Len(o) THEN Len(pre) ELSE Len(o))
          /\ BitsOf(flags) = BitsOf(pre) \cup BitsOf(o)

C7_Witness ==
    /\ op = "or"
    /\ pre = << 10 >>
    /\ o = << 129, 10 >>
    /\ flags = << 139, 10 >>

(***************************************************************************)
(* Per-feature operations: any sequence of set_optional_bit and clear_bits *)
(* of the six features on a vector given as bytes.  last and orig record   *)
(* what was applied and to what.                                           *)
(***************************************************************************)
CapBytes == {0, 213}

CapInit ==
    /\ ctx = "InitContext"
    /\ flags \in Vectors(CapBytes, MaxCapLen)
    /\ orig = flags
    /\ last = NoLast
    /\ op = "from_le_bytes"
    /\ pre = << >>
    /\ o = << >> /\ o2 = << >> /\ wire = << >> /\ wby = "none"

SetOptionalBit(f) ==
    /\ flags' = set_optional_bit(f, flags)
    /\ last' = [last EXCEPT ![f] = "set"]
    /\ UNCHANGED << ctx, orig, op, pre, o, o2, wire, wby >>

ClearBits(f) ==
    /\ flags' = clear_bits(f, flags)
    /\ last' = [last EXCEPT ![f] = "clear"]
    /\ UNCHANGED << ctx, orig, op, pre, o, o2, wire, wby >>

CapNext ==
    \/ \E f \in FeatureNames : SetOptionalBit(f)
    \/ \E f \in FeatureNames : ClearBits(f)

SpecCap == CapInit /\ [][CapNext]_vars

\* what a step of set_optional_bit of f may change
SetOptionalFrame(f) ==
    /\ Len(flags') = (IF Len(flags) > BYTE_OFFSET(f) THEN Len(flags) ELSE BYTE_OFFSET(f) + 1)
    /\ BitsOf(flags') = BitsOf(flags) \cup {ODD_BIT(f)}

\* what a step of clear_bits of f may change
ClearBitsFrame(f) ==
    /\ Len(flags') = Len(flags)
    /\ BitsOf(flags') = BitsOf(flags) \ {EVEN_BIT(f), ODD_BIT(f)}

\* C9: after any sequence of set_optional_bit and clear_bits, a feature is
\* supported iff the last operation on it was set_optional_bit, or there was
\* none and the initial vector supported it; a vector too short for the
\* feature's byte does not support it; set_optional_bit only grows the
\* vector to BYTE_OFFSET + 1 bytes and adds the optional bit; clear_bits
\* keeps the length and removes the two bits of the feature and nothing else.
C9_PerFeatureFrame ==
    /\ [](\A f \in FeatureNames :
            /\ supports_feature(f, flags) <=>
                  (last[f] = "set" \/ (last[f] = "none" /\ supports_feature(f, orig)))
            /\ (Len(flags) <= BYTE_OFFSET(f)) => ~supports_feature(f, flags))
    /\ [][\E f \in FeatureNames :
            \/ last' = [last EXCEPT ![f] = "set"] /\ SetOptionalFrame(f)
            \/ last' = [last EXCEPT ![f] = "clear"] /\ ClearBitsFrame(f)]_vars

C9_Witness ==
    /\ orig = << 213 >>
    /\ last["BasicMPP"] = "set"
    /\ last["InitialRoutingSync"] = "clear"
    /\ last["PaymentSecret"] = "clear"
    /\ last["DataLossProtect"] = "none"
    /\ flags = << 209, 0, 2 >>
    /\ supports_feature("DataLossProtect", flags)
    /\ ~supports_feature("InitialRoutingSync", flags)

(***************************************************************************)
(* Vectors built without the wire and the test helpers: by empty(),        *)
(* known(), the projection of a peer's handshake vector o, the per-feature *)
(* operations of the features the context implements and, for handshake    *)
(* vectors, or with a vector o2 that was built the same way.               *)
(***************************************************************************)
PeerVectors == { << 196, 196, 196, 196 >>, << 64 >>, << 8, 255 >> }

CleanInit ==
    /\ ctx \in Contexts
    /\ flags = empty
    /\ o \in PeerVectors
    /\ o2 = empty
    /\ op = "empty"
    /\ pre = << >>
    /\ wire = << >> /\ wby = "none" /\ last = NoLast /\ orig = << >>

CleanEmpty(T) ==
    /\ ctx' = T
    /\ flags' = empty
    /\ UNCHANGED << o, o2, op, pre, wire, wby, last, orig >>

CleanKnown(T) ==
    /\ ctx' = T
    /\ flags' = known(T)
    /\ UNCHANGED << o, o2, op, pre, wire, wby, last, orig >>

CleanProject(T) ==
    /\ ctx' = T
    /\ flags' = with_known_relevant_init_flags(T, o)
    /\ UNCHANGED << o, o2, op, pre, wire, wby, last, orig >>

CleanSetOptionalBit(f) ==
    /\ ctx \in FeatureContexts(f)
    /\ flags' = set_optional_bit(f, flags)
    /\ UNCHANGED << ctx, o, o2, op, pre, wire, wby, last, orig >>

CleanClearBits(f) ==
    /\ ctx \in FeatureContexts(f)
    /\ flags' = clear_bits(f, flags)
    /\ UNCHANGED << ctx, o, o2, op, pre, wire, wby, last, orig >>

\* a handshake vector is cloned, to be merged later
CleanClone ==
    /\ ctx = "InitContext"
    /\ o2' = flags
    /\ UNCHANGED << ctx, flags, o, op, pre, wire, wby, last, orig >>

CleanOr ==
    /\ ctx = "InitContext"
    /\ flags' = or(flags, o2)
    /\ UNCHANGED << ctx, o, o2, op, pre, wire, wby, last, orig >>

CleanNext ==
    \/ \E T \in Contexts : CleanEmpty(T)
    \/ \E T \in Contexts : CleanKnown(T)
    \/ \E T \in Contexts : CleanProject(T)
    \/ \E f \in FeatureNames : CleanSetOptionalBit(f)
    \/ \E f \in FeatureNames : CleanClearBits(f)
    \/ CleanClone
    \/ CleanOr

SpecClean == CleanInit /\ [][CleanNext]_vars

\* C10: a vector built by empty(), known(), projection, the per-feature
\* operations of its context and or with vectors built the same way never has
\* an unknown bit, required or optional.
C10_NoUnknownBits ==
    /\ ~supports_unknown_bits(ctx, flags)
    /\ ~requires_unknown_bits(ctx, flags)
    /\ ~supports_unknown_bits("InitContext", o2)
    /\ ~requires_unknown_bits("InitContext", o2)

C10_Witness ==
    /\ ctx = "InitContext"
    /\ o = << 196, 196, 196, 196 >>
    /\ supports_unknown_bits("InitContext", o)
    /\ o2 = << 4, 192, 0 >>
    /\ flags = << 6, 192, 2 >>

====
